---- MODULE Spec2Model ----
(***************************************************************************)
(* Model of the operations validator                                       *)
(*   src/plugins/validation/semantic-validators/validators/operations-ibm.js *)
(* validate({jsSpec}, config) walks jsSpec.paths, and for every operation  *)
(* that is not excluded pushes findings into result.error / result.warning.*)
(***************************************************************************)
EXTENDS Integers, Sequences, FiniteSets, TLC

VARIABLES
    jsSpec,     \* the document handed to validate
    config,     \* config.operations
    pathIdx,    \* position of map(jsSpec.paths, ...)
    opIdx,      \* position of each(pathOps, ...) inside the current path
    result,     \* result.error / result.warning
    status,     \* "running" | "returned" | "thrown"
    visited     \* the operations whose callback body ran past the exclusion test

vars == <<jsSpec, config, pathIdx, opIdx, result, status, visited>>

-----------------------------------------------------------------------------
(* JavaScript values.  A string is the sequence of its characters; a key   *)
(* or a word that the program never looks inside is one character.         *)

Undefined == [t |-> "undefined"]
Null      == [t |-> "null"]
Bool(b)   == [t |-> "boolean", b |-> b]
Num(n)    == [t |-> "number", n |-> n]
Str(s)    == [t |-> "string", s |-> s]
Arr(a)    == [t |-> "array", a |-> a]
\* an object that may carry $ref, type and required
Obj(ref, type, required) ==
    [t |-> "object", ref |-> ref, type |-> type, required |-> required]
EmptyObject == Obj(Undefined, Undefined, Undefined)

\* ToBoolean
Truthy(x) ==
    CASE x.t = "undefined" -> FALSE
      [] x.t = "null"      -> FALSE
      [] x.t = "boolean"   -> x.b
      [] x.t = "number"    -> x.n # 0
      [] x.t = "string"    -> Len(x.s) > 0
      [] OTHER             -> TRUE

\* x.length > 0 : .length is undefined on anything but strings and arrays,
\* and undefined > 0 is false
LengthPositive(x) ==
    CASE x.t = "string" -> Len(x.s) > 0
      [] x.t = "array"  -> Len(x.a) > 0
      [] OTHER          -> FALSE

IsWhitespace(c) == c = " "

RECURSIVE TrimStart(_)
TrimStart(s) ==
    IF s # <<>> /\ IsWhitespace(Head(s)) THEN TrimStart(Tail(s)) ELSE s

RECURSIVE TrimEnd(_)
TrimEnd(s) ==
    IF s # <<>> /\ IsWhitespace(s[Len(s)])
    THEN TrimEnd(SubSeq(s, 1, Len(s) - 1)) ELSE s

\* String.prototype.trim
Trim(s) == TrimEnd(TrimStart(s))

\* Array.prototype.join("") on an array of strings
RECURSIVE Join(_)
Join(a) == IF a = <<>> THEN <<>> ELSE Head(a).s \o Join(Tail(a))

Digit(d) ==
    CASE d = 0 -> "0" [] d = 1 -> "1" [] d = 2 -> "2" [] d = 3 -> "3"
      [] d = 4 -> "4" [] d = 5 -> "5" [] d = 6 -> "6" [] d = 7 -> "7"
      [] d = 8 -> "8" [] OTHER -> "9"

RECURSIVE Digits(_)
Digits(n) == IF n < 10 THEN <<Digit(n)>> ELSE Digits(n \div 10) \o <<Digit(n % 10)>>

\* x.toString() of a string, a number or a boolean
toString(x) ==
    CASE x.t = "string"  -> x.s
      [] x.t = "number"  -> IF x.n < 0 THEN <<"-">> \o Digits(-x.n) ELSE Digits(x.n)
      [] x.t = "boolean" -> IF x.b THEN <<"t", "r", "u", "e">>
                                   ELSE <<"f", "a", "l", "s", "e">>
      [] OTHER           -> <<>>

\* String.prototype.startsWith
StartsWith(s, prefix) ==
    Len(s) >= Len(prefix) /\ SubSeq(s, 1, Len(prefix)) = prefix

\* String.prototype.slice(0, n)
SliceTo(s, n) == SubSeq(s, 1, IF Len(s) < n THEN Len(s) ELSE n)

\* String.prototype.split(sep) for a one-character separator
RECURSIVE SplitAcc(_, _, _)
SplitAcc(s, sep, cur) ==
    IF s = <<>> THEN <<cur>>
    ELSE IF Head(s) = sep THEN <<cur>> \o SplitAcc(Tail(s), sep, <<>>)
    ELSE SplitAcc(Tail(s), sep, Append(cur, Head(s)))

Split(s, sep) == SplitAcc(s, sep, <<>>)

\* String.prototype.toLowerCase on the method names
ToLowerCase(k) ==
    CASE k = "GET" -> "get" [] k = "HEAD" -> "head" [] k = "POST" -> "post"
      [] k = "PUT" -> "put" [] OTHER -> k

-----------------------------------------------------------------------------
(* Ordered mappings (JavaScript objects whose keys the program iterates):  *)
(* a sequence of [key, value] entries with distinct keys.                  *)

HasKey(m, k) == \E i \in 1..Len(m) : m[i].key = k

Lookup(m, k) ==
    IF HasKey(m, k)
    THEN m[CHOOSE i \in 1..Len(m) : m[i].key = k].value
    ELSE Undefined

\* property access on a value that may not be an object
Field(x, name) == IF x.t = "object" THEN x[name] ELSE Undefined

\* x.required, x.$ref: reading a property of undefined or null throws
PropertyReadThrows(x) == x.t \in {"undefined", "null"}

\* e => `["${e}"]`
Escape(e) == [quoted |-> e]

\* obj.$ref.split("/").slice(1).map(e => `["${e}"]`)
RefPath(ref) ==
    LET parts == Split(ref, "/")
    IN  [i \in 1..(Len(parts) - 1) |-> Escape(parts[i + 1])]

\* lodash at(jsSpec, path)[0]: every quoted element is one literal key.
\* The documents of this model keep pointer targets in the two sections
\* definitions and parameters, so a lookup is <section>, <name>.
At(spec, path) ==
    LET keys == [i \in 1..Len(path) |-> path[i].quoted]
    IN  IF Len(keys) = 2 /\ keys[1] = <<"definitions">>
        THEN Lookup(spec.definitions, keys[2])
        ELSE IF Len(keys) = 2 /\ keys[1] = <<"parameters">>
        THEN Lookup(spec.parameters, keys[2])
        ELSE Undefined

\* a resolver that follows a pointer it lands on once more
resolveRef_FollowsChain(obj, spec) ==
    LET once(o) ==
            IF ~Truthy(Field(o, "ref")) THEN o
            ELSE IF ~StartsWith(Field(o, "ref").s, <<"#", "/">>) THEN EmptyObject
            ELSE At(spec, RefPath(Field(o, "ref").s))
    IN  once(once(obj))

resolveRef(obj, spec) ==
    IF ~Truthy(Field(obj, "ref")) THEN obj
    ELSE IF ~StartsWith(Field(obj, "ref").s, <<"#", "/">>) THEN EmptyObject
    ELSE At(spec, RefPath(Field(obj, "ref").s))

-----------------------------------------------------------------------------
(* validate                                                                *)

METHODS == <<"get", "head", "post", "put", "patch", "delete", "options">>

\* pick(path, [...]): the listed keys the path item has, in the list's order
RECURSIVE PickFrom(_, _)
PickFrom(item, keys) ==
    IF keys = <<>> THEN <<>>
    ELSE (IF HasKey(item, Head(keys))
          THEN <<[key |-> Head(keys), value |-> Lookup(item, Head(keys))]>>
          ELSE <<>>) \o PickFrom(item, Tail(keys))

pick(item) == PickFrom(item, METHODS)

\* pathKey.slice(0,2) === "x-"
IsExtensionKey(pathKey) == SliceTo(pathKey, 2) = <<"x", "-">>

\* an exclusion test on truthiness
IsExcluded_Truthy(op) == Truthy(op.xSdkExclude)

\* op["x-sdk-exclude"] === true
IsExcluded(op) == op.xSdkExclude = Bool(TRUE)

\* the messages, with ' where the source has a backquote
MsgConsumes    == "PUT and POST operations must have a non-empty 'consumes' field."
MsgProduces    == "Operations must have a non-empty 'produces' field."
MsgGetConsumes == "GET operations should not specify a consumes field."
MsgArray       == "Arrays MUST NOT be returned as the top-level structure in a response body."
MsgOperationId == "Operations must have a non-empty 'operationId'."
MsgSummary     == "Operations must have a non-empty 'summary' field."
MsgParamOrder  == "Required parameters should appear before optional parameters."

\* `paths.${pathKey}.${opKey}.<tail>`
Finding(pathKey, opKey, tail, message) ==
    [path |-> [pathKey |-> pathKey, opKey |-> opKey, tail |-> tail],
     message |-> message]

\* result[checkStatus].push(finding): result has the keys error and warning
\* only, so any other checkStatus reads undefined and .push throws
Push(acc, checkStatus, finding) ==
    IF checkStatus = "error" THEN [acc EXCEPT !.error = Append(@, finding)]
    ELSE IF checkStatus = "warning" THEN [acc EXCEPT !.warning = Append(@, finding)]
    ELSE [acc EXCEPT !.thrown = TRUE]

\* x && x.length > 0 && !!x.join("").trim()
\* (.join exists on arrays only: a non-empty string throws)
JoinThrows(x) == Truthy(x) /\ LengthPositive(x) /\ x.t # "array"
HasNonEmptyList(x) ==
    Truthy(x) /\ LengthPositive(x) /\ x.t = "array" /\ Len(Trim(Join(x.a))) > 0

\* x && x.length > 0 && !!x.toString().trim()
HasNonEmptyText(x) ==
    Truthy(x) /\ LengthPositive(x) /\ Len(Trim(toString(x))) > 0

\* a consumes check that does not trim the joined entries
CheckConsumes_Untrimmed(acc, op, pathKey, opKey, spec, cfg) ==
    IF acc.thrown \/ ToLowerCase(opKey) \notin {"put", "post"} THEN acc
    ELSE IF ~(Truthy(op.consumes) /\ LengthPositive(op.consumes))
            /\ ~Truthy(spec.consumes)
            /\ cfg.no_consumes_for_put_or_post # "off"
    THEN Push(acc, cfg.no_consumes_for_put_or_post,
              Finding(pathKey, opKey, <<"consumes">>, MsgConsumes))
    ELSE acc

\* lines 69-84
CheckConsumes(acc, op, pathKey, opKey, spec, cfg) ==
    IF acc.thrown \/ ToLowerCase(opKey) \notin {"put", "post"} THEN acc
    ELSE IF JoinThrows(op.consumes) THEN [acc EXCEPT !.thrown = TRUE]
    ELSE IF ~HasNonEmptyList(op.consumes) /\ ~Truthy(spec.consumes)
            /\ cfg.no_consumes_for_put_or_post # "off"
    THEN Push(acc, cfg.no_consumes_for_put_or_post,
              Finding(pathKey, opKey, <<"consumes">>, MsgConsumes))
    ELSE acc

\* lines 86-102
CheckProduces(acc, op, pathKey, opKey, spec, cfg) ==
    IF acc.thrown \/ ToLowerCase(opKey) = "head" THEN acc
    ELSE IF JoinThrows(op.produces) THEN [acc EXCEPT !.thrown = TRUE]
    ELSE IF ~HasNonEmptyList(op.produces) /\ ~Truthy(spec.produces)
            /\ cfg.no_produces # "off"
    THEN Push(acc, cfg.no_produces,
              Finding(pathKey, opKey, <<"produces">>, MsgProduces))
    ELSE acc

\* lines 104-117
CheckGetConsumes(acc, op, pathKey, opKey, spec, cfg) ==
    IF acc.thrown \/ ToLowerCase(opKey) # "get" THEN acc
    ELSE IF Truthy(op.consumes) /\ cfg.get_op_has_consumes # "off"
    THEN Push(acc, cfg.get_op_has_consumes,
              Finding(pathKey, opKey, <<"consumes">>, MsgGetConsumes))
    ELSE acc

\* lines 122-132: each(op.responses, (response, name) => ...)
RECURSIVE EachResponse(_, _, _, _, _, _, _)
EachResponse(acc, responses, i, pathKey, opKey, spec, checkStatus) ==
    IF acc.thrown \/ i > Len(responses) THEN acc
    ELSE LET response == responses[i].value
             name     == responses[i].key
             responseSchema == resolveRef(response.schema, spec)
             next ==
                 IF Truthy(response.schema)
                    /\ Truthy(responseSchema)
                    /\ Field(responseSchema, "type") = Str(<<"array">>)
                 THEN Push(acc, checkStatus,
                           Finding(pathKey, opKey, <<"responses", name, "schema">>,
                                   MsgArray))
                 ELSE acc
         IN  EachResponse(next, responses, i + 1, pathKey, opKey, spec, checkStatus)

\* lines 119-133
CheckArrayResponses(acc, op, pathKey, opKey, spec, cfg) ==
    IF acc.thrown \/ ToLowerCase(opKey) # "get" THEN acc
    ELSE IF cfg.no_array_responses # "off" /\ op.responses.t = "object"
    THEN EachResponse(acc, op.responses.entries, 1, pathKey, opKey, spec,
                      cfg.no_array_responses)
    ELSE acc

\* lines 137-147
CheckOperationId(acc, op, pathKey, opKey, spec, cfg) ==
    IF acc.thrown THEN acc
    ELSE IF ~HasNonEmptyText(op.operationId) /\ cfg.no_operation_id # "off"
    THEN Push(acc, cfg.no_operation_id,
              Finding(pathKey, opKey, <<"operationId">>, MsgOperationId))
    ELSE acc

\* lines 149-159
CheckSummary(acc, op, pathKey, opKey, spec, cfg) ==
    IF acc.thrown THEN acc
    ELSE IF ~HasNonEmptyText(op.summary) /\ cfg.no_summary # "off"
    THEN Push(acc, cfg.no_summary,
              Finding(pathKey, opKey, <<"summary">>, MsgSummary))
    ELSE acc

\* lines 167-181: for (indx = 0; indx < op.parameters.length; indx++).
\* indx is the JavaScript index; the sequence position is indx + 1.
RECURSIVE ParameterLoop(_, _, _, _, _, _, _, _)
ParameterLoop(acc, parameters, indx, firstOptional, pathKey, opKey, spec, checkStatus) ==
    IF acc.thrown \/ indx >= Len(parameters) THEN acc
    ELSE LET param == resolveRef(parameters[indx + 1], spec)
         IN  IF PropertyReadThrows(param) THEN [acc EXCEPT !.thrown = TRUE]
             ELSE IF firstOptional < 0
             THEN ParameterLoop(acc, parameters, indx + 1,
                                IF ~Truthy(Field(param, "required"))
                                THEN indx ELSE firstOptional,
                                pathKey, opKey, spec, checkStatus)
             ELSE ParameterLoop(
                     IF Truthy(Field(param, "required"))
                     THEN Push(acc, checkStatus,
                               Finding(pathKey, opKey, <<"parameters", indx>>,
                                       MsgParamOrder))
                     ELSE acc,
                     parameters, indx + 1, firstOptional,
                     pathKey, opKey, spec, checkStatus)

\* lines 161-183
CheckParameterOrder(acc, op, pathKey, opKey, spec, cfg) ==
    IF acc.thrown THEN acc
    ELSE IF cfg.parameter_order # "off"
            /\ Truthy(op.parameters) /\ LengthPositive(op.parameters)
    THEN ParameterLoop(acc, op.parameters.a, 0, -1, pathKey, opKey, spec,
                       cfg.parameter_order)
    ELSE acc

\* the checks in the order of the header's numbering
VisitOperation_Numbered(acc, op, pathKey, opKey, spec, cfg) ==
    LET a1 == CheckConsumes(acc, op, pathKey, opKey, spec, cfg)
        a2 == CheckGetConsumes(a1, op, pathKey, opKey, spec, cfg)
        a3 == CheckProduces(a2, op, pathKey, opKey, spec, cfg)
        a4 == CheckOperationId(a3, op, pathKey, opKey, spec, cfg)
        a5 == CheckSummary(a4, op, pathKey, opKey, spec, cfg)
        a6 == CheckArrayResponses(a5, op, pathKey, opKey, spec, cfg)
    IN  CheckParameterOrder(a6, op, pathKey, opKey, spec, cfg)

\* the body of the each(pathOps, ...) callback after the exclusion test,
\* lines 69-183, in the order the statements are written
VisitOperation(acc, op, pathKey, opKey, spec, cfg) ==
    LET a1 == CheckConsumes(acc, op, pathKey, opKey, spec, cfg)
        a2 == CheckProduces(a1, op, pathKey, opKey, spec, cfg)
        a3 == CheckGetConsumes(a2, op, pathKey, opKey, spec, cfg)
        a4 == CheckArrayResponses(a3, op, pathKey, opKey, spec, cfg)
        a5 == CheckOperationId(a4, op, pathKey, opKey, spec, cfg)
        a6 == CheckSummary(a5, op, pathKey, opKey, spec, cfg)
    IN  CheckParameterOrder(a6, op, pathKey, opKey, spec, cfg)


\* each(pathOps, (op, opKey) => ...), lines 61-184
RECURSIVE EachOperation(_, _, _, _, _, _)
EachOperation(acc, pathOps, i, pathKey, spec, cfg) ==
    IF acc.thrown \/ i > Len(pathOps) THEN acc
    ELSE EachOperation(
             IF IsExcluded(pathOps[i].value) THEN acc
             ELSE VisitOperation(acc, pathOps[i].value, pathKey, pathOps[i].key,
                                 spec, cfg),
             pathOps, i + 1, pathKey, spec, cfg)

\* map(jsSpec.paths, (path, pathKey) => ...), lines 56-185
RECURSIVE MapPaths(_, _, _, _)
MapPaths(acc, i, spec, cfg) ==
    IF acc.thrown \/ i > Len(spec.paths) THEN acc
    ELSE MapPaths(
             IF IsExtensionKey(spec.paths[i].key) THEN acc
             ELSE EachOperation(acc, pick(spec.paths[i].value), 1,
                                spec.paths[i].key, spec, cfg),
             i + 1, spec, cfg)

EmptyResult == [error |-> <<>>, warning |-> <<>>, thrown |-> FALSE]

\* validate({jsSpec}, config) as a function of its arguments: what it
\* returns, or that it throws
validate(spec, cfg) ==
    LET acc == MapPaths(EmptyResult, 1, spec, cfg)
    IN  IF acc.thrown THEN [status |-> "thrown"]
        ELSE [status |-> "returned", errors |-> acc.error, warnings |-> acc.warning]

-----------------------------------------------------------------------------
(* The run of validate, one step per iteration of its two loops.           *)

Running   == status = "running"
AtPath    == Running /\ pathIdx <= Len(jsSpec.paths)
PathKey   == jsSpec.paths[pathIdx].key
PathOps   == pick(jsSpec.paths[pathIdx].value)
AtOp      == AtPath /\ ~IsExtensionKey(PathKey) /\ opIdx <= Len(PathOps)

\* lines 57-59
SkipExtensionPath ==
    /\ AtPath
    /\ IsExtensionKey(PathKey)
    /\ pathIdx' = pathIdx + 1
    /\ UNCHANGED <<jsSpec, config, opIdx, result, status, visited>>

\* lines 64-67
SkipExcludedOperation ==
    /\ AtOp
    /\ IsExcluded(PathOps[opIdx].value)
    /\ opIdx' = opIdx + 1
    /\ UNCHANGED <<jsSpec, config, pathIdx, result, status, visited>>

\* lines 69-183
ValidateOperation ==
    /\ AtOp
    /\ ~IsExcluded(PathOps[opIdx].value)
    /\ LET op  == PathOps[opIdx].value
           acc == VisitOperation([error |-> result.error,
                                  warning |-> result.warning,
                                  thrown |-> FALSE],
                                 op, PathKey, PathOps[opIdx].key, jsSpec, config)
       IN  /\ result' = [error |-> acc.error, warning |-> acc.warning]
           /\ status' = IF acc.thrown THEN "thrown" ELSE status
           /\ visited' = Append(visited, [pathKey |-> PathKey,
                                          opKey |-> PathOps[opIdx].key,
                                          op |-> op])
    /\ opIdx' = opIdx + 1
    /\ UNCHANGED <<jsSpec, config, pathIdx>>

\* line 184: the inner each is through with the path's operations
EndPath ==
    /\ AtPath
    /\ ~IsExtensionKey(PathKey)
    /\ opIdx > Len(PathOps)
    /\ pathIdx' = pathIdx + 1
    /\ opIdx' = 1
    /\ UNCHANGED <<jsSpec, config, result, status, visited>>

\* line 187
Return ==
    /\ Running
    /\ pathIdx > Len(jsSpec.paths)
    /\ status' = "returned"
    /\ UNCHANGED <<jsSpec, config, pathIdx, opIdx, result, visited>>

Next ==
    \/ SkipExtensionPath
    \/ SkipExcludedOperation
    \/ ValidateOperation
    \/ EndPath
    \/ Return

\* lines 50-54
Start ==
    /\ pathIdx = 1
    /\ opIdx = 1
    /\ result = [error |-> <<>>, warning |-> <<>>]
    /\ status = "running"
    /\ visited = <<>>

-----------------------------------------------------------------------------
(* Documents and configurations.                                           *)

Severities == {"error", "warning", "off"}

ConfigKeys == {"no_consumes_for_put_or_post", "get_op_has_consumes", "no_produces",
               "no_operation_id", "no_summary", "no_array_responses",
               "parameter_order"}

Word(w) == Str(<<w>>)
TextX   == Str(<<"x">>)
ListX   == Arr(<<TextX>>)

\* "#/<section>/<name>", and a pointer into another file
RefTo(section, name) == Str(<<"#", "/", section, "/">> \o name)
ExternalRef == Str(<<"other.yaml", "#", "/", "definitions", "/", "A">>)

Schema(type)  == Obj(Undefined, type, Undefined)
Pointer(ref)  == Obj(ref, Undefined, Undefined)
Param(req)    == Obj(Undefined, Undefined, req)
Responses(entries) == [t |-> "object", entries |-> entries]

\* the pointer targets every document of the model carries
Definitions ==
    << [key |-> <<"A">>, value |-> Schema(Word("array"))],
       [key |-> <<"O">>, value |-> Schema(Word("object"))],
       [key |-> <<"a", ".", "b">>, value |-> Schema(Word("array"))],
       [key |-> <<"R">>, value |-> Pointer(RefTo("definitions", <<"A">>))] >>

Parameters ==
    << [key |-> <<"Req">>, value |-> Param(Bool(TRUE))],
       [key |-> <<"Opt">>, value |-> Param(Bool(FALSE))] >>

Operation(consumes, produces, operationId, summary, parameters, responses, exclude) ==
    [consumes |-> consumes, produces |-> produces, operationId |-> operationId,
     summary |-> summary, parameters |-> parameters, responses |-> responses,
     xSdkExclude |-> exclude]

\* an operation no rule objects to
CleanOp == Operation(ListX, ListX, TextX, TextX, Undefined, Undefined, Undefined)

\* an operation that every rule applying to its method objects to
BareOp(exclude) ==
    Operation(Arr(<<>>), Undefined, Undefined, Undefined,
              Arr(<<Param(Bool(FALSE)), Param(Bool(TRUE))>>),
              Responses(<<[key |-> "200",
                           value |-> [schema |-> Schema(Word("array"))]]>>),
              exclude)

\* an operation whose one parameter points at nothing
DanglingOp ==
    [CleanOp EXCEPT !.parameters =
        Arr(<<Pointer(RefTo("parameters", <<"Missing">>))>>)]

Document(consumes, produces, paths) ==
    [consumes |-> consumes, produces |-> produces, paths |-> paths,
     definitions |-> Definitions, parameters |-> Parameters]

\* the operation under test at /a, an extension path, and a path /b with an
\* excluded operation, a key that is no method, and one more operation
Paths(opKey, op, lastOp) ==
    << [key |-> <<"/", "a">>, value |-> <<[key |-> opKey, value |-> op]>>],
       [key |-> <<"x", "-", "e">>, value |-> <<[key |-> "get", value |-> BareOp(Undefined)]>>],
       [key |-> <<"/", "b">>,
        value |-> << [key |-> "post", value |-> BareOp(Bool(TRUE))],
                     [key |-> "GET", value |-> BareOp(Undefined)],
                     [key |-> "get", value |-> lastOp] >>] >>

LastOps == {CleanOp, DanglingOp}


AllError == [k \in ConfigKeys |-> "error"]

-----------------------------------------------------------------------------
(* Bounds of the documents.                                                *)

MaxList == 2        \* entries of a consumes list
MaxText == 2        \* characters of an operationId
MaxParams == 3      \* parameters of an operation
MaxResponses == 2   \* responses of an operation
MaxOps == 2         \* keys of the path item under test

RECURSIVE ListsOver(_, _)
ListsOver(S, n) ==
    IF n = 0 THEN {<<>>}
    ELSE ListsOver(S, n - 1)
         \cup {Append(l, e) : l \in {m \in ListsOver(S, n - 1) : Len(m) = n - 1}, e \in S}

MethodSet == {METHODS[i] : i \in 1..Len(METHODS)}

-----------------------------------------------------------------------------
(* Specification SpecConsumes: the consumes fields and their two rules.    *)

Entries == {Str(<<>>), Str(<<" ">>), Str(<<"x">>), Str(<<" ", "x">>)}

\* a local consumes: missing, null (an empty YAML value), or a list
LocalConsumes == {Undefined, Null} \cup {Arr(a) : a \in ListsOver(Entries, MaxList)}

\* a document-level consumes: missing or a list
GlobalConsumes == {Undefined, Arr(<<>>), ListX}

InitConsumes ==
    /\ Start
    /\ \E opKey \in MethodSet, local \in LocalConsumes, global \in GlobalConsumes,
          last \in LastOps :
          jsSpec = Document(global, Undefined,
                            Paths(opKey, [BareOp(Undefined) EXCEPT !.consumes = local],
                                  last))
    /\ \E s1 \in Severities, s2 \in Severities :
          config = [AllError EXCEPT !.no_consumes_for_put_or_post = s1,
                                    !.get_op_has_consumes = s2]

SpecConsumes == InitConsumes /\ [][Next]_vars

-----------------------------------------------------------------------------
(* Specification SpecOperationId: the operationId field and its rule.      *)

Chars == {"x", " "}

OperationIds ==
    {Undefined, Null, Num(0), Num(7), Num(12), Bool(TRUE)}
    \cup {Str(t) : t \in ListsOver(Chars, MaxText)}

InitOperationId ==
    /\ Start
    /\ \E opKey \in MethodSet, id \in OperationIds, last \in LastOps :
          jsSpec = Document(Undefined, Undefined,
                            Paths(opKey, [BareOp(Undefined) EXCEPT !.operationId = id],
                                  last))
    /\ \E s \in Severities : config = [AllError EXCEPT !.no_operation_id = s]

SpecOperationId == InitOperationId /\ [][Next]_vars

-----------------------------------------------------------------------------
(* Specification SpecParams: the parameters list and its rule.             *)

ParamNodes ==
    {Param(Bool(TRUE)), Param(Bool(FALSE)), Param(Undefined), Param(Word("yes")),
     Pointer(RefTo("parameters", <<"Req">>)), Pointer(RefTo("parameters", <<"Opt">>)),
     Pointer(RefTo("parameters", <<"Missing">>)), Pointer(ExternalRef)}

ParameterLists == {Undefined} \cup {Arr(l) : l \in ListsOver(ParamNodes, MaxParams)}

InitParams ==
    /\ Start
    /\ \E opKey \in {"get", "post"}, params \in ParameterLists :
          jsSpec = Document(Undefined, Undefined,
                            Paths(opKey, [BareOp(Undefined) EXCEPT !.parameters = params],
                                  CleanOp))
    /\ \E s \in Severities : config = [AllError EXCEPT !.parameter_order = s]

SpecParams == InitParams /\ [][Next]_vars

-----------------------------------------------------------------------------
(* Specification SpecResponses: the responses and their rule.              *)

SchemaValues ==
    {Undefined, Schema(Word("array")), Schema(Word("object")), Schema(Undefined),
     Pointer(RefTo("definitions", <<"A">>)),
     Pointer(RefTo("definitions", <<"a", ".", "b">>)),
     Pointer(RefTo("definitions", <<"R">>)),
     Pointer(RefTo("definitions", <<"Missing">>)),
     Pointer(ExternalRef)}

ResponseNames == <<"200", "default", "404", "500">>

ResponseMaps ==
    {Undefined}
    \cup {Responses([i \in 1..Len(l) |->
                       [key |-> ResponseNames[i], value |-> [schema |-> l[i]]]]) :
             l \in ListsOver(SchemaValues, MaxResponses)}

InitResponses ==
    /\ Start
    /\ \E opKey \in MethodSet, responses \in ResponseMaps, last \in LastOps :
          jsSpec = Document(Undefined, Undefined,
                            Paths(opKey, [BareOp(Undefined) EXCEPT !.responses = responses],
                                  last))
    /\ \E s \in Severities : config = [AllError EXCEPT !.no_array_responses = s]

SpecResponses == InitResponses /\ [][Next]_vars

-----------------------------------------------------------------------------
(* Specification SpecSelect: which operations validate goes through.       *)

PathKeys == {<<"/", "a">>, <<"x", "-", "a">>, <<"x", "-">>, <<"x">>, <<"x", "a">>,
             <<"-", "x">>, <<>>}

ItemKeys == {"post", "get", "GET", "parameters"}

Markers == {Undefined, Bool(TRUE), Bool(FALSE), Word("true")}

\* path items of at most n entries with distinct keys
RECURSIVE ItemsOver(_)
ItemsOver(n) ==
    IF n = 0 THEN {<<>>}
    ELSE ItemsOver(n - 1)
         \cup {Append(item, [key |-> k, value |-> BareOp(m)]) :
                  item \in {it \in ItemsOver(n - 1) : Len(it) = n - 1},
                  k \in ItemKeys, m \in Markers}

PathItems == {item \in ItemsOver(MaxOps) :
                 \A i, j \in 1..Len(item) : i # j => item[i].key # item[j].key}

InitSelect ==
    /\ Start
    /\ \E pathKey \in PathKeys, item \in PathItems :
          jsSpec = Document(Undefined, Undefined,
                            <<[key |-> pathKey, value |-> item]>>
                            \o Paths("put", BareOp(Undefined), CleanOp))
    /\ config \in {AllError, [AllError EXCEPT !.no_summary = "warning",
                                              !.no_produces = "warning"]}

SpecSelect == InitSelect /\ [][Next]_vars

-----------------------------------------------------------------------------
(* Specification SpecConfig: every setting of the seven severities.        *)

InitConfig ==
    /\ Start
    /\ \E opKey \in {"get", "post"}, last \in LastOps :
          jsSpec = Document(Undefined, Undefined, Paths(opKey, BareOp(Undefined), last))
    /\ config \in [ConfigKeys -> Severities]

SpecConfig == InitConfig /\ [][Next]_vars

-----------------------------------------------------------------------------
(* Specification SpecSeverity: one severity outside error, warning, off.   *)

\* a value that is no severity, and what a missing key reads as
BadSeverities == {"info", "undefined"}

InitSeverity ==
    /\ Start
    /\ \E opKey \in {"get", "post", "head"}, op \in {CleanOp, BareOp(Undefined)} :
          jsSpec = Document(Undefined, Undefined, Paths(opKey, op, CleanOp))
    /\ \E key \in ConfigKeys, bad \in BadSeverities, other \in Severities :
          config = [[k \in ConfigKeys |-> other] EXCEPT ![key] = bad]

SpecSeverity == InitSeverity /\ [][Next]_vars

-----------------------------------------------------------------------------
(* What the claims speak of.                                               *)

Occurrences(bucket, f) == Cardinality({i \in 1..Len(bucket) : bucket[i] = f})

\* the bucket a severity names, and the other one
Bucket(sev) == IF sev = "error" THEN result.error ELSE result.warning
OtherBucket(sev) == IF sev = "error" THEN result.warning ELSE result.error

\* f is in the bucket sev names exactly once if expected and not at all
\* otherwise, and never in the other bucket
ExactlyWhen(sev, f, expected) ==
    /\ Occurrences(Bucket(sev), f) = (IF expected THEN 1 ELSE 0)
    /\ Occurrences(OtherBucket(sev), f) = 0

Enabled(key) == config[key] \in {"error", "warning"}

\* the operations of a document that sit under a path key not starting
\* with "x-", under one of the seven method keys, and are not marked
\* x-sdk-exclude: true; path by path, the methods in the order of the list
SevenMethods == <<"get", "head", "post", "put", "patch", "delete", "options">>

RECURSIVE SelectedInItem(_, _, _)
SelectedInItem(pathKey, item, i) ==
    IF i > Len(SevenMethods) THEN <<>>
    ELSE LET hits == {j \in 1..Len(item) :
                         /\ item[j].key = SevenMethods[i]
                         /\ ~(item[j].value.xSdkExclude.t = "boolean"
                              /\ item[j].value.xSdkExclude.b)}
         IN  (IF hits = {} THEN <<>>
              ELSE <<[pathKey |-> pathKey, opKey |-> SevenMethods[i],
                      op |-> item[CHOOSE j \in hits : TRUE].value]>>)
             \o SelectedInItem(pathKey, item, i + 1)

RECURSIVE SelectedFrom(_, _)
SelectedFrom(paths, i) ==
    IF i > Len(paths) THEN <<>>
    ELSE (IF Len(paths[i].key) >= 2 /\ paths[i].key[1] = "x" /\ paths[i].key[2] = "-"
          THEN <<>>
          ELSE SelectedInItem(paths[i].key, paths[i].value, 1))
         \o SelectedFrom(paths, i + 1)

SelectedOps == SelectedFrom(jsSpec.paths, 1)

\* a run that returned has been through every selected operation
AllVisited == status = "returned" => visited = SelectedOps

\* some entry of the list holds a character that is not whitespace
NonEmptyList(c) ==
    /\ c.t = "array"
    /\ \E i \in 1..Len(c.a) : \E j \in 1..Len(c.a[i].s) : c.a[i].s[j] # " "

\* C3: with no_consumes_for_put_or_post at error or warning, an operation
\* that validate went through has the R1 finding paths.<p>.<m>.consumes
\* exactly once, in the bucket the severity names, when it is a PUT or POST
\* with no non-empty local consumes in a document without a document-level
\* consumes, and not at all otherwise; a run that returns went through
\* every selected operation.
C3_ConsumesRequired ==
    /\ AllVisited
    /\ Enabled("no_consumes_for_put_or_post") =>
         \A k \in 1..Len(visited) :
            ExactlyWhen(config.no_consumes_for_put_or_post,
                        Finding(visited[k].pathKey, visited[k].opKey,
                                <<"consumes">>, MsgConsumes),
                        /\ visited[k].opKey \in {"put", "post"}
                        /\ ~NonEmptyList(visited[k].op.consumes)
                        /\ jsSpec.consumes = Undefined)

\* a POST whose consumes is a list of blanks got its finding as a warning,
\* and the run returned
C3_Witness ==
    /\ status = "returned"
    /\ config.no_consumes_for_put_or_post = "warning"
    /\ \E k \in 1..Len(visited) :
          /\ visited[k].opKey = "post"
          /\ visited[k].op.consumes = Arr(<<Str(<<" ">>), Str(<<>>)>>)
          /\ Occurrences(result.warning,
                         Finding(visited[k].pathKey, "post", <<"consumes">>,
                                 MsgConsumes)) = 1

\* C2 (as claimed): with get_op_has_consumes at error or warning, a GET
\* operation has the R2 finding paths.<p>.get.consumes exactly once when
\* its consumes field is present at all, whatever its value, and no other
\* operation has it.
C2_ConsumesForbidden ==
    Enabled("get_op_has_consumes") =>
        \A k \in 1..Len(visited) :
           ExactlyWhen(config.get_op_has_consumes,
                       Finding(visited[k].pathKey, visited[k].opKey,
                               <<"consumes">>, MsgGetConsumes),
                       /\ visited[k].opKey = "get"
                       /\ visited[k].op.consumes # Undefined)


\* the string a scalar coerces to is empty or all whitespace
BlankText(v) == \A j \in 1..Len(toString(v)) : toString(v)[j] = " "

\* C5 (as claimed): with no_operation_id at error or warning, an operation
\* has the R4 finding paths.<p>.<m>.operationId exactly once if and only if
\* its operationId is absent, or empty or whitespace-only after coercion to
\* a string; a non-string scalar such as 7 has none.
C5_OperationIdRequired ==
    Enabled("no_operation_id") =>
        \A k \in 1..Len(visited) :
           ExactlyWhen(config.no_operation_id,
                       Finding(visited[k].pathKey, visited[k].opKey,
                               <<"operationId">>, MsgOperationId),
                       \/ visited[k].op.operationId \in {Undefined, Null}
                       \/ BlankText(visited[k].op.operationId))

\* the object a parameter or schema site stands for: itself, or what its
\* pointer "#/<section>/<name>" names in the document; Undefined when the
\* pointer is external or names nothing
Target(node) ==
    IF node.ref = Undefined THEN node
    ELSE LET r == node.ref.s
             section == IF r[3] = "definitions" THEN jsSpec.definitions
                        ELSE IF r[3] = "parameters" THEN jsSpec.parameters
                        ELSE <<>>
             name == SubSeq(r, 5, Len(r))
         IN  IF Len(r) >= 5 /\ r[1] = "#" /\ r[2] = "/" /\ r[4] = "/"
                /\ \E i \in 1..Len(section) : section[i].key = name
             THEN section[CHOOSE i \in 1..Len(section) : section[i].key = name].value
             ELSE Undefined

\* required is the boolean true, nothing else
StrictlyRequired(node) ==
    Target(node) # Undefined /\ Target(node).required = Bool(TRUE)

\* the JavaScript index of the first parameter not strictly required
\* (the length of the list when there is none)
FirstOptional(params) ==
    IF \E i \in 1..Len(params) : ~StrictlyRequired(params[i])
    THEN (CHOOSE i \in 1..Len(params) :
             /\ ~StrictlyRequired(params[i])
             /\ \A j \in 1..(i - 1) : StrictlyRequired(params[j])) - 1
    ELSE Len(params)

\* C1 (as claimed), for the operations whose parameter pointers all
\* resolve: with parameter_order at error or warning, the R7 finding
\* paths.<p>.<m>.parameters[i] is there exactly once for every index i
\* after firstOptional whose resolved required is strictly true, and for
\* no other index; a required that is merely truthy never counts.
C1_ParameterOrder ==
    Enabled("parameter_order") =>
        \A k \in 1..Len(visited) :
           LET params == visited[k].op.parameters
           IN  (params.t = "array"
                /\ \A i \in 1..Len(params.a) : Target(params.a[i]) # Undefined)
               => \A i \in 0..(Len(params.a) - 1) :
                     ExactlyWhen(config.parameter_order,
                                 Finding(visited[k].pathKey, visited[k].opKey,
                                         <<"parameters", i>>, MsgParamOrder),
                                 /\ i > FirstOptional(params.a)
                                 /\ StrictlyRequired(params.a[i + 1]))

\* C8 (as claimed): with every configuration value in {error, warning,
\* off}, validate never throws, and no R7 finding sits at a parameter
\* whose pointer is external or names nothing.
C8_ReferenceFailuresSkipped ==
    (\A key \in ConfigKeys : config[key] \in Severities) =>
        /\ status # "thrown"
        /\ \A k \in 1..Len(visited) :
              LET params == visited[k].op.parameters
              IN  params.t = "array" =>
                     \A i \in 0..(Len(params.a) - 1) :
                        Target(params.a[i + 1]) = Undefined =>
                           \A sev \in {"error", "warning"} :
                              Occurrences(Bucket(sev),
                                  Finding(visited[k].pathKey, visited[k].opKey,
                                          <<"parameters", i>>, MsgParamOrder)) = 0

\* the schema of a response, inline or through one pointer hop, is an
\* object with type "array"
ArraySchema(schema) ==
    /\ schema # Undefined
    /\ Target(schema) # Undefined
    /\ Target(schema).type = Word("array")

\* C4: with no_array_responses at error or warning, every response entry
\* of an operation validate went through has the R6 finding
\* paths.<p>.get.responses.<name>.schema exactly once, in the bucket the
\* severity names, when the operation is a GET and the entry's schema,
\* inline or through one in-document pointer hop, has type "array", and
\* not at all otherwise (no schema, an external or dangling pointer, a
\* pointer to a pointer, another method).
C4_NoArrayResponses ==
    /\ AllVisited
    /\ Enabled("no_array_responses") =>
         \A k \in 1..Len(visited) :
            visited[k].op.responses # Undefined =>
               \A i \in 1..Len(visited[k].op.responses.entries) :
                  LET entry == visited[k].op.responses.entries[i]
                  IN  ExactlyWhen(config.no_array_responses,
                                  Finding(visited[k].pathKey, visited[k].opKey,
                                          <<"responses", entry.key, "schema">>,
                                          MsgArray),
                                  /\ visited[k].opKey = "get"
                                  /\ ArraySchema(entry.value.schema))

\* a GET with an inline array schema and a pointer to one (under a key
\* holding a dot) has both findings as warnings, and the run returned
C4_Witness ==
    /\ status = "returned"
    /\ config.no_array_responses = "warning"
    /\ \E k \in 1..Len(visited) :
          /\ visited[k].opKey = "get"
          /\ visited[k].op.responses =
                Responses(<<[key |-> "200", value |-> [schema |-> Schema(Word("array"))]],
                            [key |-> "default",
                             value |-> [schema |->
                                 Pointer(RefTo("definitions", <<"a", ".", "b">>))]]>>)
          /\ \A name \in {"200", "default"} :
                Occurrences(result.warning,
                            Finding(visited[k].pathKey, "get",
                                    <<"responses", name, "schema">>, MsgArray)) = 1


\* the findings of both buckets
AllFindings ==
    {result.error[i] : i \in 1..Len(result.error)}
    \cup {result.warning[i] : i \in 1..Len(result.warning)}

IsPrefix(s, t) == Len(s) <= Len(t) /\ \A i \in 1..Len(s) : s[i] = t[i]

RuleOf(f) ==
    CASE f.message = MsgConsumes    -> "no_consumes_for_put_or_post"
      [] f.message = MsgGetConsumes -> "get_op_has_consumes"
      [] f.message = MsgProduces    -> "no_produces"
      [] f.message = MsgOperationId -> "no_operation_id"
      [] f.message = MsgSummary     -> "no_summary"
      [] f.message = MsgArray       -> "no_array_responses"
      [] OTHER                      -> "parameter_order"

Without(bucket, key) == SelectSeq(bucket, LAMBDA f : RuleOf(f) # key)

\* C6 (as claimed): once validate is through, for each of the seven rules,
\* validate on the same document with that rule's key set to off ends as
\* this run does, and when it returns it returns no finding of that rule
\* and the findings of the other rules as this run does, bucket by bucket
\* in the same order.
C6_OffSwitch ==
    status # "running" =>
        \A key \in ConfigKeys :
           LET off == validate(jsSpec, [config EXCEPT ![key] = "off"])
           IN  /\ off.status = status
               /\ off.status = "returned" =>
                     /\ Without(off.errors, key) = off.errors
                     /\ Without(off.warnings, key) = off.warnings
                     /\ off.errors = Without(result.error, key)
                     /\ off.warnings = Without(result.warning, key)

\* the position of the operation a finding belongs to among those gone through
VisitIndex(f) ==
    CHOOSE k \in 1..Len(visited) :
        visited[k].pathKey = f.path.pathKey /\ visited[k].opKey = f.path.opKey

\* in every bucket, a finding of an earlier operation comes first, and of
\* two findings of one operation the one of the lower rank comes first
OrderedBy(rank) ==
    \A bucket \in {result.error, result.warning} :
       \A i, j \in 1..Len(bucket) :
          i < j =>
             \/ VisitIndex(bucket[i]) < VisitIndex(bucket[j])
             \/ /\ VisitIndex(bucket[i]) = VisitIndex(bucket[j])
                /\ rank[RuleOf(bucket[i])] <= rank[RuleOf(bucket[j])]

NumberedOrder ==
    [k \in ConfigKeys |->
        CASE k = "no_consumes_for_put_or_post" -> 1
          [] k = "get_op_has_consumes"         -> 2
          [] k = "no_produces"                 -> 3
          [] k = "no_operation_id"             -> 4
          [] k = "no_summary"                  -> 5
          [] k = "no_array_responses"          -> 6
          [] OTHER                             -> 7]

WrittenOrder ==
    [k \in ConfigKeys |->
        CASE k = "no_consumes_for_put_or_post" -> 1
          [] k = "no_produces"                 -> 2
          [] k = "get_op_has_consumes"         -> 3
          [] k = "no_array_responses"          -> 4
          [] k = "no_operation_id"             -> 5
          [] k = "no_summary"                  -> 6
          [] OTHER                             -> 7]

\* C10 (as claimed): in each bucket the findings of one operation appear in
\* the rule order R1, R2, R3, R4, R5, R6, R7, and the findings of an
\* earlier-visited operation precede those of a later-visited one.
C10_OrderAsClaimed == OrderedBy(NumberedOrder)

\* C10 (amended): in each bucket the findings of one operation appear in
\* the order R1, R3, R2, R6, R4, R5, R7 (consumes-required,
\* produces-required, consumes-forbidden, array responses, operationId,
\* summary, parameter order), and the findings of an earlier-visited
\* operation precede those of a later-visited one.
C10_EmissionOrder == OrderedBy(WrittenOrder)

\* a GET reported for produces, consumes, an array response, operationId,
\* summary and a parameter, all in the error bucket, and the run returned
C10_Witness ==
    /\ status = "returned"
    /\ Len(visited) >= 1
    /\ visited[1].opKey = "get"
    /\ Len(SelectSeq(result.error, LAMBDA f : f.path.pathKey = <<"/", "a">>)) = 6

\* C9 (as claimed): when some configuration value is outside {error,
\* warning, off}, or its key is missing, validate still does not throw,
\* whether or not an operation meets the rule's trigger condition.
C9_InvalidSeverity ==
    (\E key \in ConfigKeys : config[key] \notin Severities) => status # "thrown"


=============================================================================
